---- MODULE Spec2Model ----
(***************************************************************************)
(* Model of src/DataIngestion.py: class CSVToPostgresPipeline and the      *)
(* __main__ block.  Strings that the program computes on (file names,      *)
(* table names, the LARGE_FILES setting) are sequences of one-character    *)
(* strings so that str.replace, str.lower, str.endswith and str.split are  *)
(* computed, not assumed.  A row of a CSV file is the record               *)
(* [src |-> file name, idx |-> position in the file].                      *)
(*                                                                         *)
(* Every call that can raise (create_engine and the SELECT 1 probe,        *)
(* os.listdir, pd.read_csv and each step of its chunk iterator, to_sql)    *)
(* chooses its outcome nondeterministically.  clean_column_names renames   *)
(* columns only: it changes no row and does not raise on the string        *)
(* headers read_csv produces, so it has no step of its own.  Nothing in    *)
(* run() raises past the loaders' own handlers, so the "except Exception"  *)
(* branch of the main block has no step.  Logging is left out.             *)
(***************************************************************************)
EXTENDS Integers, Sequences, FiniteSets, TLC

\* ------------------------------------------------------------------ bounds
MaxRows == 3
MaxChunk == 2
MaxFiles == 2
MaxRuns == 2

\* ------------------------------------------------------- program constants
\* os.getenv('CHUNK_SIZE', '100000')
DefaultChunkSize == 100000
\* os.getenv('LARGE_FILES', 'sales.csv')
DefaultLargeFiles == <<"s","a","l","e","s",".","c","s","v">>
RequiredVars == {"DB_HOST", "DB_PORT", "DB_NAME", "DB_USER", "DB_PASSWORD"}

\* ------------------------------------------------------------ string model
CsvExt == <<".","c","s","v">>

\* str.replace(old, new): leftmost, non-overlapping occurrences, old non-empty
RECURSIVE Replace(_, _, _)
Replace(s, old, new) ==
  IF Len(s) < Len(old) THEN s
  ELSE IF SubSeq(s, 1, Len(old)) = old
       THEN new \o Replace(SubSeq(s, Len(old) + 1, Len(s)), old, new)
       ELSE <<s[1]>> \o Replace(Tail(s), old, new)

\* str.lower() of one character, over the letters the file names here use
LowerChar(c) ==
  CASE c = "A" -> "a" [] c = "B" -> "b" [] c = "C" -> "c"
    [] c = "S" -> "s" [] c = "V" -> "v" [] OTHER -> c

\* str.lower()
Lower(s) == [i \in 1..Len(s) |-> LowerChar(s[i])]

\* str.endswith(suffix)
EndsWith(s, suf) ==
  /\ Len(s) >= Len(suf)
  /\ SubSeq(s, Len(s) - Len(suf) + 1, Len(s)) = suf

\* str.split(','): the list of the pieces between commas (never empty)
RECURSIVE Split(_)
Split(s) ==
  IF \A i \in 1..Len(s) : s[i] # ","
  THEN <<s>>
  ELSE LET i == CHOOSE j \in 1..Len(s) :
                   s[j] = "," /\ \A k \in 1..(j - 1) : s[k] # ","
       IN <<SubSeq(s, 1, i - 1)>> \o Split(SubSeq(s, i + 1, Len(s)))

Range(q) == {q[i] : i \in 1..Len(q)}

\* get_table_name: filename.replace('.csv', '').replace('-', '_').lower()
get_table_name(filename) ==
  Lower(Replace(Replace(filename, CsvExt, <<>>), <<"-">>, <<"_">>))

\* --------------------------------------------------------- the environment
FileAB == <<"a","-","b",".","c","s","v">>
FileA_B == <<"a","_","b",".","c","s","v">>
FileNotes == <<"n","o","t","e","s",".","t","x","t">>
DirEntries == {FileAB, FileA_B, FileNotes}
CsvNames == {f \in DirEntries : EndsWith(f, CsvExt)}
Tables == {get_table_name(f) : f \in CsvNames}

\* rows a table may hold before the run
StaleName == <<"o","l","d">>
StaleRows == <<[src |-> StaleName, idx |-> 1]>>

\* the rows of file f when it holds n rows, in file order
Source(f, n) == [i \in 1..n |-> [src |-> f, idx |-> i]]

\* directory listings: the entries in the order os.listdir returns them
Listings ==
  {q \in UNION {[1..k -> DirEntries] : k \in 0..MaxFiles} :
     \A i, j \in 1..Len(q) : i # j => q[i] # q[j]}

\* CHUNK_SIZE: unset, an integer literal, or text int() rejects
ChunkSettings ==
  {[kind |-> "unset", val |-> 0], [kind |-> "junk", val |-> 0]}
    \cup {[kind |-> "int", val |-> v] : v \in 0..MaxChunk}
\* LARGE_FILES: unset or a comma-separated list
LargeSettings ==
  {[set |-> FALSE, val |-> <<>>], [set |-> TRUE, val |-> FileAB],
   [set |-> TRUE, val |-> FileA_B \o <<",">> \o FileAB]}

GoodEnvs ==
  {[missing |-> {}, folder |-> TRUE, chunk |-> c, large |-> l] :
     c \in ChunkSettings \ {[kind |-> "junk", val |-> 0]}, l \in LargeSettings}
BadEnvs ==
  {[missing |-> {"DB_PASSWORD"}, folder |-> TRUE,
    chunk |-> [kind |-> "unset", val |-> 0], large |-> [set |-> FALSE, val |-> <<>>]],
   [missing |-> {}, folder |-> FALSE,
    chunk |-> [kind |-> "unset", val |-> 0], large |-> [set |-> FALSE, val |-> <<>>]],
   [missing |-> {}, folder |-> TRUE,
    chunk |-> [kind |-> "junk", val |-> 0], large |-> [set |-> FALSE, val |-> <<>>]]}
Envs == GoodEnvs \cup BadEnvs

\* ------------------------------------------------------------------- state
VARIABLES
  pc,            \* position in the __main__ block / run() / the loaders
  env,           \* the process environment (os.getenv)
  dir,           \* what os.listdir(csv_folder_path) returns, in order
  nrows,         \* number of data rows of each directory entry
  db,            \* the store: table name -> rows
  chunk_size,    \* self.chunk_size
  large_files,   \* self.large_files
  engine,        \* self.engine: "None" or "engine"
  csv_files,     \* run(): csv_files
  idx,           \* run(): position of the for loop in csv_files
  results,       \* run(): results
  ret,           \* the value run() returned
  exitCode,      \* exit() argument, -1 while the process runs
  filename,      \* process_single_file: filename
  table_name,    \* process_single_file: table_name
  chunk_number,  \* process_large_file: chunk_number
  total_rows,    \* process_large_file: total_rows
  pos,           \* rows the chunk iterator has consumed
  chunk,         \* the batch read and not yet written
  loaderResult,  \* what the loader returned to run()
  connects,      \* history: outcome of each connect_to_database call
  listdirs,      \* history: outcome of each os.listdir call
  loaderCalls,   \* history: loader invocations [file, loader]
  reads,         \* history: read attempts [file, ok]
  writes,        \* history: to_sql calls [file, table, mode, batch, rows, ok]
  returns,       \* history: loader returns [file, ok]
  before,        \* history: rows of table_name when the loader was entered
  runs,          \* repeated-load driver: loads started
  snap           \* repeated-load driver: table after the first successful load

config == <<env, dir, nrows, chunk_size, large_files>>
runVars == <<engine, csv_files, idx, results, ret, exitCode>>
loaderVars == <<filename, table_name, chunk_number, total_rows, pos, chunk, loaderResult>>
history == <<connects, listdirs, loaderCalls, reads, writes, returns, before>>
driver == <<runs, snap>>
vars == <<pc, db, config, runVars, loaderVars, history, driver>>

NoResults == [total_files |-> 0, successful |-> 0, failed |-> 0, failed_files |-> <<>>]
NoRet == [status |-> "none"]
NoSnap == [set |-> FALSE, rows |-> <<>>]

\* the rows of a table; a table that does not exist holds none
TableRows(d, t) == IF t \in DOMAIN d THEN d[t] ELSE <<>>
SetTable(d, t, rws) == [x \in DOMAIN d \cup {t} |-> IF x = t THEN rws ELSE d[x]]

Init ==
  /\ pc = "start"
  /\ env \in Envs
  /\ dir \in Listings
  /\ nrows \in [DirEntries -> 0..MaxRows]
  /\ \A f \in DirEntries : (f \notin Range(dir) \/ f \notin CsvNames) => nrows[f] = 0
  /\ \E prior \in {<<>>, StaleRows} : db = [t \in Tables |-> prior]
  /\ chunk_size = 0
  /\ large_files = <<>>
  /\ engine = "None"
  /\ csv_files = <<>>
  /\ idx = 0
  /\ results = NoResults
  /\ ret = NoRet
  /\ exitCode = -1
  /\ filename = <<>>
  /\ table_name = <<>>
  /\ chunk_number = 0
  /\ total_rows = 0
  /\ pos = 0
  /\ chunk = <<>>
  /\ loaderResult = FALSE
  /\ connects = <<>>
  /\ listdirs = <<>>
  /\ loaderCalls = <<>>
  /\ reads = <<>>
  /\ writes = <<>>
  /\ returns = <<>>
  /\ before = <<>>
  /\ runs = 0
  /\ snap = NoSnap

\* ------------------------------------------------------- __init__ and main
\* __init__ raises ValueError: a required variable is missing, the folder is
\* not set, or int() rejects CHUNK_SIZE
ConfigError(e) ==
  \/ \E v \in RequiredVars : v \in e.missing
  \/ ~e.folder
  \/ e.chunk.kind = "junk"

Construct ==
  /\ pc = "start"
  /\ IF ConfigError(env)
     THEN /\ pc' = "except_ValueError"
          /\ UNCHANGED <<chunk_size, large_files>>
     ELSE /\ chunk_size' = IF env.chunk.kind = "unset" THEN DefaultChunkSize
                                                       ELSE env.chunk.val
          /\ large_files' = Split(IF env.large.set THEN env.large.val
                                                   ELSE DefaultLargeFiles)
          /\ pc' = "run_connect"
  /\ UNCHANGED <<db, env, dir, nrows, runVars, loaderVars, history, driver>>

\* except ValueError: exit(1)
MainExceptValueError ==
  /\ pc = "except_ValueError"
  /\ exitCode' = 1
  /\ pc' = "exited"
  /\ UNCHANGED <<db, config, engine, csv_files, idx, results, ret, loaderVars,
                 history, driver>>

\* exit(0 if results['status'] == 'completed' and results['failed'] == 0 else 1)
ExitCodeIgnoringFailed(r) == IF r.status = "completed" THEN 0 ELSE 1
ExitCode(r) == IF r.status = "completed" /\ r.failed = 0 THEN 0 ELSE 1

MainExit ==
  /\ pc = "main_exit"
  /\ exitCode' = ExitCode(ret)
  /\ pc' = "exited"
  /\ UNCHANGED <<db, config, engine, csv_files, idx, results, ret, loaderVars,
                 history, driver>>

\* ---------------------------------------------------------------- run()
ConnectFailed == [status |-> "failed", reason |-> "Database connection failed"]
NoFilesFound == [status |-> "failed", reason |-> "No CSV files found"]

\* connect_to_database, and run()'s early return when it fails.  A failure is
\* create_engine raising (engine stays None) or the SELECT 1 probe raising.
ConnectToDatabaseIgnoringFailure ==
  /\ pc = "run_connect"
  /\ \E outcome \in {"ok", "create_failed", "probe_failed"} :
       /\ connects' = Append(connects, outcome = "ok")
       /\ engine' = IF outcome = "create_failed" THEN "None" ELSE "engine"
       /\ pc' = "run_get_files"
       /\ ret' = ret
  /\ UNCHANGED <<db, config, csv_files, idx, results, exitCode, loaderVars,
                 listdirs, loaderCalls, reads, writes, returns, before, driver>>
ConnectToDatabase ==
  /\ pc = "run_connect"
  /\ \E outcome \in {"ok", "create_failed", "probe_failed"} :
       /\ connects' = Append(connects, outcome = "ok")
       /\ engine' = IF outcome = "create_failed" THEN "None" ELSE "engine"
       /\ IF outcome = "ok"
          THEN pc' = "run_get_files" /\ ret' = ret
          ELSE pc' = "main_exit" /\ ret' = ConnectFailed
  /\ UNCHANGED <<db, config, csv_files, idx, results, exitCode, loaderVars,
                 listdirs, loaderCalls, reads, writes, returns, before, driver>>

\* [f for f in all_files if f.endswith('.csv')]
CsvFilterNone(all_files) == all_files
CsvFilter(all_files) == SelectSeq(all_files, LAMBDA f : EndsWith(f, CsvExt))

\* get_csv_files (os.listdir may raise: the list is then empty), run()'s
\* early return on an empty list, and the initial results
GetCsvFiles ==
  /\ pc = "run_get_files"
  /\ \E ok \in BOOLEAN :
       /\ listdirs' = Append(listdirs, ok)
       /\ LET found == IF ok THEN CsvFilter(dir) ELSE <<>>
          IN IF found = <<>>
             THEN /\ ret' = NoFilesFound
                  /\ pc' = "main_exit"
                  /\ UNCHANGED <<csv_files, idx, results>>
             ELSE /\ csv_files' = found
                  /\ results' = [total_files |-> Len(found), successful |-> 0,
                                 failed |-> 0, failed_files |-> <<>>]
                  /\ idx' = 1
                  /\ pc' = "run_loop"
                  /\ ret' = ret
  /\ UNCHANGED <<db, config, engine, exitCode, loaderVars, connects,
                 loaderCalls, reads, writes, returns, before, driver>>

\* filename in self.large_files
IsLargeByTable(name, large) == \E l \in Range(large) : get_table_name(l) = get_table_name(name)
IsLarge(name, large) == name \in Range(large)

\* the for loop takes the next file: process_single_file up to the dispatch
ProcessSingleFile ==
  /\ pc = "run_loop"
  /\ idx <= Len(csv_files)
  /\ filename' = csv_files[idx]
  /\ table_name' = get_table_name(csv_files[idx])
  /\ before' = TableRows(db, get_table_name(csv_files[idx]))
  /\ chunk_number' = 0
  /\ total_rows' = 0
  /\ pos' = 0
  /\ chunk' = <<>>
  /\ IF IsLarge(csv_files[idx], large_files)
     THEN /\ loaderCalls' = Append(loaderCalls, [file |-> csv_files[idx], loader |-> "large"])
          /\ pc' = "large_next"
     ELSE /\ loaderCalls' = Append(loaderCalls, [file |-> csv_files[idx], loader |-> "standard"])
          /\ pc' = "std_read"
  /\ UNCHANGED <<db, config, runVars, loaderResult, connects, listdirs, reads,
                 writes, returns, driver>>

\* the for loop's body after process_single_file returned
RecordResultAborting ==
  /\ pc = "run_record"
  /\ IF loaderResult
     THEN /\ results' = [results EXCEPT !.successful = @ + 1]
          /\ idx' = idx + 1
     ELSE /\ results' = [results EXCEPT !.failed = @ + 1,
                                        !.failed_files = Append(@, filename)]
          /\ idx' = Len(csv_files) + 1
  /\ pc' = "run_loop"
  /\ UNCHANGED <<db, config, engine, csv_files, ret, exitCode, loaderVars,
                 history, driver>>
RecordResult ==
  /\ pc = "run_record"
  /\ IF loaderResult
     THEN results' = [results EXCEPT !.successful = @ + 1]
     ELSE results' = [results EXCEPT !.failed = @ + 1,
                                    !.failed_files = Append(@, filename)]
  /\ idx' = idx + 1
  /\ pc' = "run_loop"
  /\ UNCHANGED <<db, config, engine, csv_files, ret, exitCode, loaderVars,
                 history, driver>>

\* the loop is exhausted: results['status'] = 'completed'; return results
RunSummary ==
  /\ pc = "run_loop"
  /\ idx > Len(csv_files)
  /\ ret' = [status |-> "completed", total_files |-> results.total_files,
             successful |-> results.successful, failed |-> results.failed,
             failed_files |-> results.failed_files]
  /\ pc' = "main_exit"
  /\ UNCHANGED <<db, config, engine, csv_files, idx, results, exitCode,
                 loaderVars, history, driver>>

\* ----------------------------------------------------------- the loaders
Min(a, b) == IF a < b THEN a ELSE b

\* the batch the chunk iterator yields next: at most c rows after the p
\* rows already consumed of file f, which holds n rows
NextChunkOversized(f, n, p, c) == SubSeq(Source(f, n), p + 1, Min(p + c + 1, n))
NextChunk(f, n, p, c) == SubSeq(Source(f, n), p + 1, Min(p + c, n))

\* mode = 'replace' if chunk_number == 1 else 'append'
WriteModeAlwaysAppend(k) == "append"
WriteModeAlwaysReplace(k) == "replace"
WriteMode(k) == IF k = 1 THEN "replace" ELSE "append"

\* if_exists of process_standard_file's to_sql call
StandardModeAppend == "append"
StandardMode == "replace"

\* DataFrame.to_sql(table, engine, if_exists=mode) when it succeeds
SinkWrite(d, t, batch, mode) ==
  IF mode = "replace" THEN SetTable(d, t, batch)
                      ELSE SetTable(d, t, TableRows(d, t) \o batch)

\* the stores a to_sql call that raises may leave: the INSERT is rolled back;
\* with if_exists='replace' the DROP may or may not have taken effect
FailedWrite(d, t, mode) ==
  IF mode = "replace" THEN {d, SetTable(d, t, <<>>)} ELSE {d}

\* return True / return False of a loader
LoaderReturn(ok) ==
  /\ loaderResult' = ok
  /\ returns' = Append(returns, [file |-> filename, ok |-> ok])
  /\ pc' = "run_record"

\* process_large_file: one step of "for chunk in pd.read_csv(..., chunksize)".
\* read_csv rejects a chunksize below 1; a read may raise; the iterator
\* yields one (empty) batch for a file without data rows and stops once the
\* rows are consumed
LargeReadChunk ==
  /\ pc = "large_next"
  /\ IF chunk_size < 1
     THEN /\ reads' = Append(reads, [file |-> filename, ok |-> FALSE])
          /\ LoaderReturn(FALSE)
          /\ UNCHANGED <<chunk, pos, chunk_number>>
     ELSE \E ok \in BOOLEAN :
            IF ~ok
            THEN /\ reads' = Append(reads, [file |-> filename, ok |-> FALSE])
                 /\ LoaderReturn(FALSE)
                 /\ UNCHANGED <<chunk, pos, chunk_number>>
            ELSE IF pos < nrows[filename] \/ chunk_number = 0
                 THEN /\ reads' = Append(reads, [file |-> filename, ok |-> TRUE])
                      /\ chunk' = NextChunk(filename, nrows[filename], pos, chunk_size)
                      /\ pos' = pos + Len(NextChunk(filename, nrows[filename], pos, chunk_size))
                      /\ chunk_number' = chunk_number + 1
                      /\ pc' = "large_write"
                      /\ UNCHANGED <<loaderResult, returns>>
                 ELSE /\ LoaderReturn(TRUE)
                      /\ UNCHANGED <<reads, chunk, pos, chunk_number>>
  /\ UNCHANGED <<db, config, runVars, filename, table_name, total_rows,
                 connects, listdirs, loaderCalls, writes, before, driver>>

\* process_large_file: chunk.to_sql(table_name, engine, if_exists=mode) and
\* total_rows += len(chunk)
LargeWriteChunkContinuing ==
  /\ pc = "large_write"
  /\ \E ok \in BOOLEAN :
       /\ writes' = Append(writes, [file |-> filename, table |-> table_name,
                                    mode |-> WriteMode(chunk_number),
                                    batch |-> chunk_number, rows |-> chunk, ok |-> ok])
       /\ IF ok
          THEN /\ db' = SinkWrite(db, table_name, chunk, WriteMode(chunk_number))
               /\ total_rows' = total_rows + Len(chunk)
          ELSE /\ db' \in FailedWrite(db, table_name, WriteMode(chunk_number))
               /\ UNCHANGED total_rows
       /\ pc' = "large_next"
       /\ UNCHANGED <<loaderResult, returns>>
  /\ UNCHANGED <<config, runVars, filename, table_name, chunk_number, pos, chunk,
                 connects, listdirs, loaderCalls, reads, before, driver>>
LargeWriteChunk ==
  /\ pc = "large_write"
  /\ \E ok \in BOOLEAN :
       /\ writes' = Append(writes, [file |-> filename, table |-> table_name,
                                    mode |-> WriteMode(chunk_number),
                                    batch |-> chunk_number, rows |-> chunk, ok |-> ok])
       /\ IF ok
          THEN /\ db' = SinkWrite(db, table_name, chunk, WriteMode(chunk_number))
               /\ total_rows' = total_rows + Len(chunk)
               /\ pc' = "large_next"
               /\ UNCHANGED <<loaderResult, returns>>
          ELSE /\ db' \in FailedWrite(db, table_name, WriteMode(chunk_number))
               /\ LoaderReturn(FALSE)
               /\ UNCHANGED total_rows
  /\ UNCHANGED <<config, runVars, filename, table_name, chunk_number, pos, chunk,
                 connects, listdirs, loaderCalls, reads, before, driver>>

\* process_standard_file: df = pd.read_csv(file_path)
StdRead ==
  /\ pc = "std_read"
  /\ \E ok \in BOOLEAN :
       /\ reads' = Append(reads, [file |-> filename, ok |-> ok])
       /\ IF ok
          THEN /\ chunk' = Source(filename, nrows[filename])
               /\ pc' = "std_write"
               /\ UNCHANGED <<loaderResult, returns>>
          ELSE /\ LoaderReturn(FALSE)
               /\ UNCHANGED chunk
  /\ UNCHANGED <<db, config, runVars, filename, table_name, chunk_number,
                 total_rows, pos, connects, listdirs, loaderCalls, writes, before,
                 driver>>

\* process_standard_file: df.to_sql(table_name, engine, if_exists='replace')
StdWrite ==
  /\ pc = "std_write"
  /\ \E ok \in BOOLEAN :
       /\ writes' = Append(writes, [file |-> filename, table |-> table_name,
                                    mode |-> StandardMode, batch |-> 1,
                                    rows |-> chunk, ok |-> ok])
       /\ IF ok
          THEN db' = SinkWrite(db, table_name, chunk, StandardMode)
          ELSE db' \in FailedWrite(db, table_name, StandardMode)
       /\ LoaderReturn(ok)
  /\ UNCHANGED <<config, runVars, filename, table_name, chunk_number, total_rows,
                 pos, chunk, connects, listdirs, loaderCalls, reads, before, driver>>

\* ------------------------------------------------------- specifications
Next ==
  \/ Construct
  \/ MainExceptValueError
  \/ ConnectToDatabase
  \/ GetCsvFiles
  \/ ProcessSingleFile
  \/ LargeReadChunk
  \/ LargeWriteChunk
  \/ StdRead
  \/ StdWrite
  \/ RecordResult
  \/ RunSummary
  \/ MainExit

Spec == Init /\ [][Next]_vars

\* process_large_file called repeatedly on one file of a constructed and
\* connected pipeline
InitRerun ==
  /\ pc = "rerun_idle"
  /\ env \in {e \in GoodEnvs : e.chunk.kind = "int" /\ e.large.val = FileAB}
  /\ dir = <<FileAB>>
  /\ nrows \in [DirEntries -> 0..MaxRows]
  /\ \A f \in DirEntries : f # FileAB => nrows[f] = 0
  /\ \E prior \in {<<>>, StaleRows} : db = [t \in Tables |-> prior]
  /\ chunk_size = env.chunk.val
  /\ large_files = Split(env.large.val)
  /\ engine = "engine"
  /\ csv_files = <<>>
  /\ idx = 0
  /\ results = NoResults
  /\ ret = NoRet
  /\ exitCode = -1
  /\ filename = FileAB
  /\ table_name = get_table_name(FileAB)
  /\ chunk_number = 0
  /\ total_rows = 0
  /\ pos = 0
  /\ chunk = <<>>
  /\ loaderResult = FALSE
  /\ connects = <<TRUE>>
  /\ listdirs = <<>>
  /\ loaderCalls = <<>>
  /\ reads = <<>>
  /\ writes = <<>>
  /\ returns = <<>>
  /\ before = <<>>
  /\ runs = 0
  /\ snap = NoSnap

\* process_large_file(file_path, table_name) is entered
RerunCall ==
  /\ pc = "rerun_idle"
  /\ runs < MaxRuns
  /\ runs' = runs + 1
  /\ chunk_number' = 0
  /\ total_rows' = 0
  /\ pos' = 0
  /\ chunk' = <<>>
  /\ before' = TableRows(db, table_name)
  /\ loaderCalls' = Append(loaderCalls, [file |-> filename, loader |-> "large"])
  /\ pc' = "large_next"
  /\ UNCHANGED <<db, config, runVars, filename, table_name, loaderResult,
                 connects, listdirs, reads, writes, returns, snap>>

\* process_large_file returned to its caller
RerunReturn ==
  /\ pc = "run_record"
  /\ snap' = IF loaderResult /\ ~snap.set
             THEN [set |-> TRUE, rows |-> TableRows(db, table_name)]
             ELSE snap
  /\ pc' = "rerun_idle"
  /\ UNCHANGED <<db, config, runVars, loaderVars, history, runs>>

NextRerun ==
  \/ RerunCall
  \/ LargeReadChunk
  \/ LargeWriteChunk
  \/ RerunReturn

SpecRerun == InitRerun /\ [][NextRerun]_vars

\* ------------------------------------------------- reading the histories
WritesOf(f) == SelectSeq(writes, LAMBDA w : w.file = f)
ReadsOf(f) == SelectSeq(reads, LAMBDA r : r.file = f)
OkReadsOf(f) == SelectSeq(reads, LAMBDA r : r.file = f /\ r.ok)
OkWritesOf(f) == SelectSeq(writes, LAMBDA w : w.file = f /\ w.ok)
CalledLarge(f) == \E i \in 1..Len(loaderCalls) : loaderCalls[i] = [file |-> f, loader |-> "large"]
CalledStandard(f) == \E i \in 1..Len(loaderCalls) : loaderCalls[i] = [file |-> f, loader |-> "standard"]
Returned(f) == \E i \in 1..Len(returns) : returns[i].file = f
ReturnedOk(f) == \E i \in 1..Len(returns) : returns[i] = [file |-> f, ok |-> TRUE]
ReturnedFailed(f) == \E i \in 1..Len(returns) : returns[i] = [file |-> f, ok |-> FALSE]
FilesOf(q) == [i \in 1..Len(q) |-> q[i].file]
Finished == pc \in {"main_exit", "exited"}

\* --------------------------------------------------------------- claims

\* C1: the chunked loader writes the batches of a file in sequence order
\* 1, 2, 3, ..., one to_sql call per batch read, batch 1 in replace mode and
\* every later batch in append mode, to the file's table; a batch is written
\* only after the write of the batch before it returned successfully, and
\* the next batch is read only after the current one was written.
C1_BatchOrderAndModes ==
  \A f \in DirEntries :
    CalledLarge(f) =>
      /\ \A i \in 1..Len(WritesOf(f)) :
           /\ WritesOf(f)[i].batch = i
           /\ WritesOf(f)[i].mode = (IF i = 1 THEN "replace" ELSE "append")
           /\ WritesOf(f)[i].table = get_table_name(f)
           /\ i < Len(WritesOf(f)) => WritesOf(f)[i].ok
      /\ Len(WritesOf(f)) <= Len(OkReadsOf(f))
      /\ Len(OkReadsOf(f)) <= Len(WritesOf(f)) + 1
      /\ (Len(OkReadsOf(f)) = Len(WritesOf(f)) + 1) => (pc = "large_write" /\ filename = f)
      /\ ReturnedOk(f) => Len(WritesOf(f)) >= 1

C1_Witness ==
  \E f \in DirEntries :
    /\ CalledLarge(f)
    /\ ReturnedOk(f)
    /\ Len(WritesOf(f)) = 3
    /\ WritesOf(f)[1].mode = "replace"
    /\ WritesOf(f)[3].mode = "append"

\* C2 as stated: when the chunked load fails at batch k, the table holds
\* exactly batches 1..k-1, for every k >= 1 and every prior content.
C2_Original ==
  (pc = "run_record" /\ ~loaderResult /\ CalledLarge(filename)) =>
    TableRows(db, table_name) = SubSeq(Source(filename, nrows[filename]), 1, total_rows)

\* C2 amended: a failing read or write is the last thing the chunked loader
\* does for the file (nothing is read or written after it) and the loader
\* returns False; when at least one batch was written (k >= 2) the table
\* holds exactly batches 1..k-1; when the failure is at batch 1 the table
\* keeps what it held before the load (a failed replace-mode write may
\* instead leave it empty).
C2_FailureStopsAndKeepsPrefix ==
  /\ \A f \in DirEntries :
       (CalledLarge(f) /\ (\E i \in 1..Len(ReadsOf(f)) : ~ReadsOf(f)[i].ok)) =>
         /\ ~ReadsOf(f)[Len(ReadsOf(f))].ok
         /\ Len(OkReadsOf(f)) = Len(ReadsOf(f)) - 1
         /\ Len(WritesOf(f)) = Len(OkWritesOf(f))
         /\ ReturnedFailed(f)
  /\ \A f \in DirEntries :
       (CalledLarge(f) /\ (\E i \in 1..Len(WritesOf(f)) : ~WritesOf(f)[i].ok)) =>
         /\ ~WritesOf(f)[Len(WritesOf(f))].ok
         /\ Len(OkWritesOf(f)) = Len(WritesOf(f)) - 1
         /\ Len(ReadsOf(f)) = Len(WritesOf(f))
         /\ Len(OkReadsOf(f)) = Len(ReadsOf(f))
         /\ ReturnedFailed(f)
  /\ (pc = "run_record" /\ ~loaderResult /\ CalledLarge(filename)) =>
       /\ Len(OkWritesOf(filename)) >= 1 =>
            TableRows(db, table_name) = SubSeq(Source(filename, nrows[filename]), 1, total_rows)
       /\ (Len(OkWritesOf(filename)) = 0 /\ WritesOf(filename) = <<>>) =>
            TableRows(db, table_name) = before
       /\ Len(OkWritesOf(filename)) = 0 =>
            TableRows(db, table_name) \in {before, <<>>}

C2_Witness ==
  /\ pc = "run_record"
  /\ ~loaderResult
  /\ CalledLarge(filename)
  /\ Len(OkWritesOf(filename)) = 2
  /\ before = StaleRows
  /\ TableRows(db, table_name) = SubSeq(Source(filename, nrows[filename]), 1, 2)

\* C3: whenever process_large_file returns True the table holds exactly the
\* file's rows in file order, whatever it held before; a second successful
\* load of the same file leaves the table as the first one left it.
C3_SuccessMakesTableEqualSource ==
  (pc = "run_record" /\ loaderResult) =>
    /\ TableRows(db, table_name) = Source(filename, nrows[filename])
    /\ snap.set => TableRows(db, table_name) = snap.rows

C3_Witness ==
  /\ pc = "run_record"
  /\ loaderResult
  /\ runs = 2
  /\ snap.set
  /\ nrows[filename] > chunk_size
  /\ before = snap.rows
  /\ snap.rows = Source(filename, nrows[filename])

\* C4: a successful chunked load with chunk size c >= 1 of a file of N rows
\* writes batches of at most c rows, every batch but the last of exactly c
\* rows, N rows in total (total_rows = N); N = 3c gives exactly 3 batches
\* and N = c + 1 exactly 2, of c rows and 1 row.
C4_BatchSizes ==
  (pc = "run_record" /\ loaderResult /\ CalledLarge(filename)) =>
    LET W == WritesOf(filename)
        n == nrows[filename]
        c == chunk_size
    IN /\ c >= 1
       /\ \A i \in 1..Len(W) : Len(W[i].rows) <= c
       /\ \A i \in 1..(Len(W) - 1) : Len(W[i].rows) = c
       /\ \A i \in 1..Len(W) :
            W[i].rows = SubSeq(Source(filename, n), (i - 1) * c + 1, Min(i * c, n))
       /\ total_rows = n
       /\ n = 3 * c => Len(W) = 3
       /\ n = c + 1 => (Len(W) = 2 /\ Len(W[1].rows) = c /\ Len(W[2].rows) = 1)

C4_Witness ==
  /\ pc = "run_record"
  /\ loaderResult
  /\ CalledLarge(filename)
  /\ nrows[filename] = 3 * chunk_size
  /\ Len(WritesOf(filename)) = 3

\* C5 as stated: every file outside the large-file set that was processed
\* went to the standard loader and produced exactly one write, in replace
\* mode.
C5_Original ==
  \A f \in DirEntries :
    (Returned(f) /\ f \notin Range(large_files)) =>
      /\ CalledStandard(f)
      /\ ~CalledLarge(f)
      /\ Len(WritesOf(f)) = 1
      /\ WritesOf(f)[1].mode = "replace"

\* C5 amended: a file outside the large-file set is dispatched to the
\* standard loader only, never to the chunked loader; it produces no
\* append-mode write and at most one to_sql call: exactly one, in replace
\* mode and carrying all of the file's rows, when its read succeeded, and
\* none when the read failed.
C5_StandardRouteOneReplaceWrite ==
  /\ \A i \in 1..Len(loaderCalls) :
       loaderCalls[i].loader = (IF loaderCalls[i].file \in Range(large_files)
                                THEN "large" ELSE "standard")
  /\ \A f \in DirEntries :
       (Returned(f) /\ f \notin Range(large_files)) =>
         /\ CalledStandard(f)
         /\ ~CalledLarge(f)
         /\ \A i \in 1..Len(WritesOf(f)) : WritesOf(f)[i].mode = "replace"
         /\ Len(ReadsOf(f)) = 1
         /\ Len(WritesOf(f)) = (IF ReadsOf(f)[1].ok THEN 1 ELSE 0)
         /\ \A i \in 1..Len(WritesOf(f)) :
              WritesOf(f)[i].rows = Source(f, nrows[f])

C5_Witness ==
  \E f \in DirEntries :
    /\ Returned(f)
    /\ f \notin Range(large_files)
    /\ get_table_name(f) \in {get_table_name(l) : l \in Range(large_files)}
    /\ nrows[f] > chunk_size
    /\ chunk_size >= 1
    /\ Len(WritesOf(f)) = 1
    /\ WritesOf(f)[1].mode = "replace"

\* C6: once the connection succeeded and files were discovered, run()
\* processes every discovered file exactly once in enumeration order,
\* whatever the loaders return, and returns status "completed" with
\* total_files = number of discovered files, successful / failed = number of
\* loader successes / failures, and failed_files = the failed file names in
\* enumeration order.
C6_PerFileFailuresNeverAbort ==
  (Finished /\ connects = <<TRUE>> /\ csv_files # <<>>) =>
    /\ FilesOf(loaderCalls) = csv_files
    /\ FilesOf(returns) = csv_files
    /\ \A f \in Range(csv_files) : Len(SelectSeq(csv_files, LAMBDA g : g = f)) = 1
    /\ ret.status = "completed"
    /\ ret.total_files = Len(csv_files)
    /\ ret.successful = Len(SelectSeq(returns, LAMBDA r : r.ok))
    /\ ret.failed = Len(SelectSeq(returns, LAMBDA r : ~r.ok))
    /\ ret.successful + ret.failed = ret.total_files
    /\ ret.failed_files = FilesOf(SelectSeq(returns, LAMBDA r : ~r.ok))

C6_Witness ==
  /\ Finished
  /\ connects = <<TRUE>>
  /\ Len(csv_files) = 2
  /\ returns = <<[file |-> csv_files[1], ok |-> FALSE], [file |-> csv_files[2], ok |-> TRUE]>>
  /\ ret.failed_files = <<csv_files[1]>>
  /\ ret.successful = 1

\* C7: when the connection attempt fails, run() returns status "failed" with
\* reason "Database connection failed"; the attempt is not repeated, the
\* directory is never listed, no loader is entered and nothing is read or
\* written.
C7_ConnectionFailureIsFatal ==
  /\ Len(connects) <= 1
  /\ (connects = <<FALSE>>) =>
       /\ Finished
       /\ ret = ConnectFailed
       /\ listdirs = <<>>
       /\ loaderCalls = <<>>
       /\ reads = <<>>
       /\ writes = <<>>

C7_Witness ==
  /\ connects = <<FALSE>>
  /\ pc = "exited"
  /\ \E i \in 1..Len(dir) : EndsWith(dir[i], CsvExt)
  /\ ret = ConnectFailed

\* C8: after a successful connection, when listing the directory fails or
\* no entry ends in ".csv", run() returns status "failed" with reason
\* "No CSV files found"; no loader is entered and nothing is read or
\* written.
C8_NoFilesIsFatal ==
  (connects = <<TRUE>> /\ listdirs # <<>>
     /\ (~listdirs[1] \/ \A i \in 1..Len(dir) : ~EndsWith(dir[i], CsvExt))) =>
    /\ Finished
    /\ ret = NoFilesFound
    /\ loaderCalls = <<>>
    /\ reads = <<>>
    /\ writes = <<>>

C8_Witness ==
  /\ connects = <<TRUE>>
  /\ listdirs = <<TRUE>>
  /\ dir = <<FileNotes>>
  /\ pc = "exited"
  /\ ret = NoFilesFound

\* the step the program takes next from its current position is possible
Progress ==
  CASE pc = "start" -> ENABLED Construct
    [] pc = "except_ValueError" -> ENABLED MainExceptValueError
    [] pc = "run_connect" -> ENABLED ConnectToDatabase
    [] pc = "run_get_files" -> ENABLED GetCsvFiles
    [] pc = "run_loop" -> ENABLED (ProcessSingleFile \/ RunSummary)
    [] pc = "large_next" -> ENABLED LargeReadChunk
    [] pc = "large_write" -> ENABLED LargeWriteChunk
    [] pc = "std_read" -> ENABLED StdRead
    [] pc = "std_write" -> ENABLED StdWrite
    [] pc = "run_record" -> ENABLED RecordResult
    [] pc = "main_exit" -> ENABLED MainExit
    [] OTHER -> FALSE

\* C9: the process ends only through exit(0) or exit(1); it exits 0 exactly
\* when the connection succeeded and run() completed with every loader
\* returning success, and 1 after a configuration error, a connection
\* failure, an empty file set or any per-file failure.
C9_ExitCodes ==
  /\ (pc = "exited") = (exitCode \in {0, 1})
  /\ exitCode \in {-1, 0, 1}
  /\ pc # "exited" => Progress
  /\ pc = "exited" =>
       (exitCode = 0) =
         (/\ ~ConfigError(env)
          /\ connects = <<TRUE>>
          /\ csv_files # <<>>
          /\ FilesOf(returns) = csv_files
          /\ \A i \in 1..Len(returns) : returns[i].ok)

C9_Witness ==
  /\ pc = "exited"
  /\ exitCode = 0
  /\ Len(returns) = 2

\* C10 as stated: when two discovered files derive the same table name, the
\* table holds after run() exactly the rows of the one processed later.
C10_Original ==
  Finished =>
    \A i, j \in 1..Len(returns) :
      (/\ i < j
       /\ get_table_name(returns[i].file) = get_table_name(returns[j].file)
       /\ \A k \in (j + 1)..Len(returns) :
            get_table_name(returns[k].file) # get_table_name(returns[j].file)) =>
        TableRows(db, get_table_name(returns[j].file))
          = Source(returns[j].file, nrows[returns[j].file])

\* C10 amended: files that derive the same table name are all processed
\* (none is skipped, the collision is not reported: failed_files holds only
\* the files whose own loader failed); when the load of the file processed
\* later succeeded, the table holds after run() exactly that file's rows and
\* none of the earlier file's.  When the later load failed the earlier
\* file's rows may remain.
C10_LastSuccessfulWriteWins ==
  (Finished /\ connects = <<TRUE>> /\ csv_files # <<>>) =>
    \A i, j \in 1..Len(csv_files) :
      (/\ i < j
       /\ get_table_name(csv_files[i]) = get_table_name(csv_files[j])
       /\ \A k \in (j + 1)..Len(csv_files) :
            get_table_name(csv_files[k]) # get_table_name(csv_files[j])) =>
        /\ Returned(csv_files[i])
        /\ Returned(csv_files[j])
        /\ \A f \in Range(ret.failed_files) : ReturnedFailed(f)
        /\ ReturnedOk(csv_files[j]) =>
             /\ TableRows(db, get_table_name(csv_files[j]))
                  = Source(csv_files[j], nrows[csv_files[j]])
             /\ \A r \in 1..Len(TableRows(db, get_table_name(csv_files[j]))) :
                  TableRows(db, get_table_name(csv_files[j]))[r].src = csv_files[j]

C10_Witness ==
  /\ Finished
  /\ csv_files = <<FileAB, FileA_B>>
  /\ ReturnedOk(FileAB)
  /\ ReturnedOk(FileA_B)
  /\ nrows[FileAB] >= 2
  /\ nrows[FileA_B] >= 1
  /\ ret.failed = 0
  /\ TableRows(db, get_table_name(FileA_B)) = Source(FileA_B, nrows[FileA_B])

====
